---- MODULE Spec2Model ----
(***************************************************************************)
(* Camera-trap detection pipeline: the TFDetector result builder           *)
(* (run_tf_detector.py), its coordinate conversion, and the two driver     *)
(* loops (server.py, video_detect.py).                                     *)
(*                                                                         *)
(* Numbers in [0,1] (scores, thresholds, coordinates) are fixed-point      *)
(* integers counted in ticks of 10^-(COORD_DIGITS + GuardDigits).          *)
(***************************************************************************)
EXTENDS Integers, Sequences, FiniteSets, TLC

VARIABLES
    program,      \* which entry point runs: "server", "video_detect", "detector", "coords"
    pc,           \* position of the running program
    frame,        \* the frame in hand: what the model returns for it, and where it raises
    threshold,    \* detection_threshold of the call in hand
    out,          \* <<result, animal>> returned by generate_detections_one_image (<<>> before)
    printed,      \* result dicts printed by load_and_run_detector in this cycle
    flag,         \* flag returned to the driver by load_and_run_detector
    alerted,      \* winsound.Beep was called in this cycle
    key,          \* last key read by cv2.waitKey
    cycleLog,     \* steps the server performed for the frame in hand
    count,        \* video_detect.py: count
    eos,          \* video_detect.py: vidObj.read() reported success = False
    tf_coords,    \* a box [y1, x1, y2, x2]
    api_coords,   \* __convert_coords(tf_coords) (<<>> before)
    back_coords   \* convert_to_tf_coords(api_coords) (<<>> before)

vars == <<program, pc, frame, threshold, out, printed, flag, alerted, key,
          cycleLog, count, eos, tf_coords, api_coords, back_coords>>

-----------------------------------------------------------------------------
(* Bounds of the model *)

MaxDetections == 2        \* raw detections per image, detector specification
MaxFrameDetections == 1   \* raw detections per frame, driver specification
MaxCoord == 12            \* coordinates lie within MaxCoord ticks of 0 or of 1
GuardDigits == 1          \* decimal digits kept below COORD_DIGITS

-----------------------------------------------------------------------------
(* Program constants *)

CONF_DIGITS == 3
COORD_DIGITS == 4
FAILURE_TF_INFER == "Failure TF inference"
EXCLUDED_CLASS == 3
ANIMAL_CLASS == 1
FrameCap == 1000

RECURSIVE Pow10(_)
Pow10(n) == IF n = 0 THEN 1 ELSE 10 * Pow10(n - 1)

TickDigits == COORD_DIGITS + GuardDigits
One == Pow10(TickDigits)                       \* 1.0
Milli == Pow10(TickDigits - CONF_DIGITS)       \* 0.001
TenThousandth == Pow10(TickDigits - COORD_DIGITS)  \* 0.0001

DEFAULT_OUTPUT_CONFIDENCE_THRESHOLD == One \div 10

\* ct_utils.truncate_float: cut x to `precision` decimal places.
truncate_float(x, precision) ==
    LET unit == Pow10(TickDigits - precision) IN (x \div unit) * unit

round_and_make_float(d, precision) == truncate_float(d, precision)

-----------------------------------------------------------------------------
(* Coordinate conversion *)

convert_coords_swapped(c) ==
    <<round_and_make_float(c[1], COORD_DIGITS),
      round_and_make_float(c[2], COORD_DIGITS),
      round_and_make_float(c[4] - c[2], COORD_DIGITS),
      round_and_make_float(c[3] - c[1], COORD_DIGITS)>>

\* TFDetector.__convert_coords: [y1, x1, y2, x2] -> [x1, y1, width, height]
convert_coords(c) ==
    LET width == c[4] - c[2]
        height == c[3] - c[1]
        new == <<c[2], c[1], width, height>>
    IN [i \in 1..4 |-> round_and_make_float(new[i], COORD_DIGITS)]

\* TFDetector.convert_to_tf_coords: [x1, y1, width, height] -> [y1, x1, y2, x2]
convert_to_tf_coords(array) ==
    LET x1 == array[1]
        y1 == array[2]
        width == array[3]
        height == array[4]
        x2 == x1 + width
        y2 == y1 + height
    IN <<y1, x1, y2, x2>>

-----------------------------------------------------------------------------
(* generate_detections_one_image *)

NoFault == -1

IncludedInclusive(s, detection_threshold) == s >= detection_threshold

IncludedAlways(s, detection_threshold) == TRUE

\* line 275: if s > detection_threshold
Included(s, detection_threshold) == s > detection_threshold

ExcludedNever(c) == FALSE

\* line 272: if c == 3: continue
Excluded(c) == c = EXCLUDED_CLASS

UpdateMaxLast(max_detection_conf, s) == s

\* lines 283-284
UpdateMax(max_detection_conf, s) ==
    IF s > max_detection_conf THEN s ELSE max_detection_conf

\* line 282
AppendDetection(detections_cur_image, detection_entry) ==
    Append(detections_cur_image, detection_entry)

AnimalFlagIfIncluded(animal, d, detection_threshold) ==
    IF d.class = ANIMAL_CLASS /\ Included(d.score, detection_threshold) THEN 1 ELSE animal

\* lines 285-286
AnimalFlag(animal, d, detection_threshold) ==
    IF d.class = ANIMAL_CLASS THEN 1 ELSE animal

\* lines 276-281
DetectionEntry(d) ==
    [category |-> d.class,
     conf |-> truncate_float(d.score, CONF_DIGITS),
     bbox |-> convert_coords(d.box)]

\* One pass of the loop body, lines 271-286, on raw detection d.  `raises`
\* says that building the detection entry raises an exception.
LoopBody(st, d, detection_threshold, raises) ==
    IF st.raised \/ Excluded(d.class) THEN st
    ELSE IF Included(d.score, detection_threshold) /\ raises
         THEN [st EXCEPT !.raised = TRUE]
    ELSE LET inc == Included(d.score, detection_threshold)
         IN [detections |-> IF inc THEN AppendDetection(st.detections, DetectionEntry(d))
                                   ELSE st.detections,
             max_detection_conf |-> IF inc THEN UpdateMax(st.max_detection_conf, d.score)
                                           ELSE st.max_detection_conf,
             animal |-> AnimalFlag(st.animal, d, detection_threshold),
             raised |-> FALSE]

\* The loop of line 271 over the first n raw detections.
RECURSIVE Loop(_, _, _, _)
Loop(raw, n, detection_threshold, fault) ==
    IF n = 0
    THEN [detections |-> <<>>, max_detection_conf |-> 0, animal |-> 0, raised |-> FALSE]
    ELSE LoopBody(Loop(raw, n - 1, detection_threshold, fault), raw[n],
                  detection_threshold, fault = n)

FailureResultKeepsDetections(image_id, st) ==
    [file |-> image_id, detections |-> st.detections, failure |-> FAILURE_TF_INFER]

\* lines 291-292: the except branch
FailureResult(image_id, st) ==
    [file |-> image_id, failure |-> FAILURE_TF_INFER]

\* lines 287-289
SuccessResult(image_id, st) ==
    [file |-> image_id,
     max_detection_conf |-> truncate_float(st.max_detection_conf, CONF_DIGITS),
     detections |-> st.detections]

\* TFDetector.generate_detections_one_image, lines 259-295.  fault = 0: the
\* inference call raises; fault = k in 1..Len(raw): building the k-th entry
\* raises; fault = Len(raw)+1: the final truncation raises.
generate_detections_one_image(raw, image_id, detection_threshold, fault) ==
    LET st0 == [detections |-> <<>>, max_detection_conf |-> 0, animal |-> 0, raised |-> TRUE]
        st == Loop(raw, Len(raw), detection_threshold, fault)
    IN IF fault = 0 THEN <<FailureResult(image_id, st0), 0>>
       ELSE IF st.raised \/ fault = Len(raw) + 1
            THEN <<FailureResult(image_id, st), st.animal>>
       ELSE <<SuccessResult(image_id, st), st.animal>>

-----------------------------------------------------------------------------
(* Inputs *)

\* Scores around the default threshold 0.1, and 0 and 0.92.
ScoreValues ==
    {0, DEFAULT_OUTPUT_CONFIDENCE_THRESHOLD,
     DEFAULT_OUTPUT_CONFIDENCE_THRESHOLD + 4 * TenThousandth,
     DEFAULT_OUTPUT_CONFIDENCE_THRESHOLD + Milli,
     (92 * One) \div 100}

Thresholds ==
    {0, DEFAULT_OUTPUT_CONFIDENCE_THRESHOLD,
     DEFAULT_OUTPUT_CONFIDENCE_THRESHOLD + 5 * TenThousandth}

Classes == {1, 2, 3}

Boxes == {<<One \div 10, (2 * One) \div 10, (4 * One) \div 10, (5 * One) \div 10>>,
          <<0, 0, One, One>>}

ImageIds == {1, 2}

RECURSIVE SeqsUpTo(_, _)
SeqsUpTo(S, n) ==
    IF n = 0 THEN {<<>>}
    ELSE LET shorter == SeqsUpTo(S, n - 1)
         IN shorter \cup {Append(q, x) : q \in {r \in shorter : Len(r) = n - 1}, x \in S}

RawDetections(scores, boxes) == [box : boxes, score : scores, class : Classes]

\* What the detector specification feeds to generate_detections_one_image.
Images ==
    UNION {[id : ImageIds, raw : {raw}, fault : NoFault..(Len(raw) + 1)] :
           raw \in SeqsUpTo(RawDetections(ScoreValues, Boxes), MaxDetections)}

\* What the drivers receive: a frame stands for what the loaded model returns
\* for it, and for where processing it raises.
FrameScores ==
    {DEFAULT_OUTPUT_CONFIDENCE_THRESHOLD, (92 * One) \div 100}

Frames ==
    UNION {[id : {1}, raw : {raw}, fault : NoFault..(Len(raw) + 1)] :
           raw \in SeqsUpTo(RawDetections(FrameScores, {<<0, 0, One, One>>}),
                            MaxFrameDetections)}

NoFrame == [id |-> 0, raw |-> <<>>, fault |-> NoFault]

CoordValues == (0..MaxCoord) \cup ((One - MaxCoord)..One)

-----------------------------------------------------------------------------
(* Detector specification: one call of generate_detections_one_image *)

IdleDrivers ==
    /\ printed = <<>>
    /\ flag = 0
    /\ alerted = FALSE
    /\ key = "none"
    /\ cycleLog = <<>>
    /\ count = 0
    /\ eos = FALSE

IdleCoords ==
    /\ tf_coords = <<0, 0, 0, 0>>
    /\ api_coords = <<>>
    /\ back_coords = <<>>

InitDetector ==
    /\ program = "detector"
    /\ pc = "call"
    /\ frame \in Images
    /\ threshold \in Thresholds
    /\ out = <<>>
    /\ IdleDrivers
    /\ IdleCoords

Generate ==
    /\ program = "detector"
    /\ pc = "call"
    /\ out' = generate_detections_one_image(frame.raw, frame.id, threshold, frame.fault)
    /\ pc' = "returned"
    /\ UNCHANGED <<program, frame, threshold, printed, flag, alerted, key, cycleLog,
                   count, eos, tf_coords, api_coords, back_coords>>

NextDetector == Generate

SpecDetector == InitDetector /\ [][NextDetector]_vars

-----------------------------------------------------------------------------
(* Coordinate specification: a box through __convert_coords and back *)

InitCoords ==
    /\ program = "coords"
    /\ pc = "convert"
    /\ tf_coords \in {b \in CoordValues \X CoordValues \X CoordValues \X CoordValues :
                        b[1] < b[3] /\ b[2] < b[4]}
    /\ api_coords = <<>>
    /\ back_coords = <<>>
    /\ frame = NoFrame
    /\ threshold = DEFAULT_OUTPUT_CONFIDENCE_THRESHOLD
    /\ out = <<>>
    /\ IdleDrivers

Convert ==
    /\ program = "coords"
    /\ pc = "convert"
    /\ api_coords' = convert_coords(tf_coords)
    /\ pc' = "back"
    /\ UNCHANGED <<program, frame, threshold, out, printed, flag, alerted, key,
                   cycleLog, count, eos, tf_coords, back_coords>>

ConvertBack ==
    /\ program = "coords"
    /\ pc = "back"
    /\ back_coords' = convert_to_tf_coords(api_coords)
    /\ pc' = "returned"
    /\ UNCHANGED <<program, frame, threshold, out, printed, flag, alerted, key,
                   cycleLog, count, eos, tf_coords, api_coords>>

NextCoords == Convert \/ ConvertBack

SpecCoords == InitCoords /\ [][NextCoords]_vars

-----------------------------------------------------------------------------
(* Driver specification: server.py and video_detect.py *)

\* run_tf_detector.load_and_run_detector, lines 300-320.  Line 312 reads
\* result['detections'], which raises KeyError when the result holds no such
\* key; otherwise the rendered image and the flag are returned.
load_and_run_detector(image_file) ==
    LET r == generate_detections_one_image(image_file.raw, image_file.id,
                                           DEFAULT_OUTPUT_CONFIDENCE_THRESHOLD,
                                           image_file.fault)
    IN [result |-> r[1],
        raised |-> "detections" \notin DOMAIN r[1],
        im |-> image_file.id,
        flag |-> r[2]]

Keys == {"q", "none"}

InitDrivers ==
    /\ program \in {"server", "video_detect"}
    /\ pc = IF program = "server" THEN "recv" ELSE "read"
    /\ frame = NoFrame
    /\ threshold = DEFAULT_OUTPUT_CONFIDENCE_THRESHOLD
    /\ out = <<>>
    /\ IdleDrivers
    /\ IdleCoords

\* server.py line 23: imageHub.recv_image()
SrvRecv ==
    /\ program = "server"
    /\ pc = "recv"
    /\ frame' \in Frames
    /\ cycleLog' = <<"recv">>
    /\ printed' = <<>>
    /\ alerted' = FALSE
    /\ pc' = "reply"
    /\ UNCHANGED <<program, threshold, out, flag, key, count, eos,
                   tf_coords, api_coords, back_coords>>

SrvReplySkipped ==
    /\ program = "server"
    /\ pc = "reply"
    /\ pc' = "infer"
    /\ UNCHANGED <<program, frame, threshold, out, printed, flag, alerted, key,
                   cycleLog, count, eos, tf_coords, api_coords, back_coords>>

\* server.py line 24: imageHub.send_reply(b'OK')
SrvReply ==
    /\ program = "server"
    /\ pc = "reply"
    /\ cycleLog' = Append(cycleLog, "OK")
    /\ pc' = "infer"
    /\ UNCHANGED <<program, frame, threshold, out, printed, flag, alerted, key,
                   count, eos, tf_coords, api_coords, back_coords>>

\* server.py lines 26-37: res, flag = detect.load_and_run_detector(frame).
\* An exception leaving the call is caught nowhere and ends the script.
SrvDetect ==
    /\ program = "server"
    /\ pc = "infer"
    /\ LET r == load_and_run_detector(frame)
       IN /\ printed' = Append(printed, r.result)
          /\ IF r.raised
             THEN /\ pc' = "crashed"
                  /\ cycleLog' = Append(cycleLog, "infer")
                  /\ flag' = flag
             ELSE /\ pc' = "alert"
                  /\ cycleLog' = cycleLog \o <<"infer", "build">>
                  /\ flag' = r.flag
    /\ UNCHANGED <<program, frame, threshold, out, alerted, key, count, eos,
                   tf_coords, api_coords, back_coords>>

\* server.py lines 40-43: if flag == 1: winsound.Beep(...)
SrvAlert ==
    /\ program = "server"
    /\ pc = "alert"
    /\ alerted' = (flag = 1)
    /\ cycleLog' = Append(cycleLog, "dispatch")
    /\ pc' = "key"
    /\ UNCHANGED <<program, frame, threshold, out, printed, flag, key, count, eos,
                   tf_coords, api_coords, back_coords>>

SrvWaitKeyAnyKeyQuits ==
    /\ program = "server"
    /\ pc = "key"
    /\ key' \in Keys
    /\ pc' = "done"
    /\ UNCHANGED <<program, frame, threshold, out, printed, flag, alerted, cycleLog,
                   count, eos, tf_coords, api_coords, back_coords>>

\* server.py lines 45-50: key = cv2.waitKey(1) & 0xFF; if key == ord("q"): break
SrvWaitKey ==
    /\ program = "server"
    /\ pc = "key"
    /\ key' \in Keys
    /\ pc' = IF key' = "q" THEN "done" ELSE "recv"
    /\ UNCHANGED <<program, frame, threshold, out, printed, flag, alerted, cycleLog,
                   count, eos, tf_coords, api_coords, back_coords>>

\* video_detect.py lines 23-26 and 34-35: while count != 1000, read a frame;
\* break when the read fails.
VidRead ==
    /\ program = "video_detect"
    /\ pc = "read"
    /\ count # FrameCap
    /\ \E success \in BOOLEAN :
          IF success
          THEN /\ frame' \in Frames
               /\ pc' = "detect"
               /\ eos' = eos
          ELSE /\ frame' = NoFrame
               /\ pc' = "done"
               /\ eos' = TRUE
    /\ printed' = <<>>
    /\ UNCHANGED <<program, threshold, out, flag, alerted, key, cycleLog, count,
                   tf_coords, api_coords, back_coords>>

\* video_detect.py line 23: the loop condition count != 1000 fails
VidCapReached ==
    /\ program = "video_detect"
    /\ pc = "read"
    /\ count = FrameCap
    /\ pc' = "done"
    /\ UNCHANGED <<program, frame, threshold, out, printed, flag, alerted, key,
                   cycleLog, count, eos, tf_coords, api_coords, back_coords>>

\* video_detect.py lines 28-36: im, flag = detect.load_and_run_detector(image);
\* the image is kept and count += 1, which ends the cycle: its frame and
\* its output are gone.
VidDetect ==
    /\ program = "video_detect"
    /\ pc = "detect"
    /\ LET r == load_and_run_detector(frame)
       IN IF r.raised
          THEN /\ pc' = "crashed"
               /\ printed' = Append(printed, r.result)
               /\ frame' = frame
               /\ flag' = flag
               /\ count' = count
          ELSE /\ pc' = "read"
               /\ printed' = <<>>
               /\ frame' = NoFrame
               /\ flag' = r.flag
               /\ count' = count + 1
    /\ UNCHANGED <<program, threshold, out, alerted, key, cycleLog, eos,
                   tf_coords, api_coords, back_coords>>

Next ==
    \/ SrvRecv
    \/ SrvReply
    \/ SrvDetect
    \/ SrvAlert
    \/ SrvWaitKey
    \/ VidRead
    \/ VidCapReached
    \/ VidDetect

Spec == InitDrivers /\ [][Next]_vars

-----------------------------------------------------------------------------
(* Properties of generate_detections_one_image (SpecDetector) *)

Returned == program = "detector" /\ pc = "returned"
result == out[1]
Succeeded == Returned /\ "failure" \notin DOMAIN result

\* The raw detections that are not of the excluded class and score above t.
Kept(raw, t) == SelectSeq(raw, LAMBDA d : d.class # 3 /\ d.score > t)

SeqMax(q) == IF q = <<>> THEN 0
             ELSE CHOOSE m \in {q[i] : i \in 1..Len(q)} : \A j \in 1..Len(q) : q[j] <= m

Confs(detections) == [i \in 1..Len(detections) |-> detections[i].conf]

\* C2: the call always returns a result that has 'file' and either exactly
\* 'detections' and 'max_detection_conf', or exactly 'failure' set to the
\* fixed tag: never a mix, wherever the exception was raised.
C2_WellFormedResult ==
    Returned =>
        /\ Len(out) = 2
        /\ "file" \in DOMAIN result
        /\ result.file = frame.id
        /\ \/ DOMAIN result = {"file", "detections", "max_detection_conf"}
           \/ /\ DOMAIN result = {"file", "failure"}
              /\ result.failure = "Failure TF inference"

\* The exception is raised at the second entry, after a first entry was appended.
C2_Witness ==
    /\ Returned
    /\ "failure" \in DOMAIN result
    /\ frame.fault = 2
    /\ Len(Kept(frame.raw, threshold)) = 2

\* C3: on success the detections are exactly the raw detections that are not
\* of class 3 and whose score is strictly above the threshold, in input order.
C3_ThresholdBoundary ==
    Succeeded =>
        LET kept == Kept(frame.raw, threshold)
        IN /\ Len(result.detections) = Len(kept)
           /\ \A i \in 1..Len(kept) :
                 /\ result.detections[i].category = kept[i].class
                 /\ result.detections[i].conf = (kept[i].score \div Milli) * Milli
                 /\ result.detections[i].bbox[1] = (kept[i].box[2] \div TenThousandth) * TenThousandth

\* A score equal to the threshold is left out, one just above it is kept.
C3_Witness ==
    /\ Succeeded
    /\ Len(frame.raw) = 2
    /\ frame.raw[1].class # 3 /\ frame.raw[1].score = threshold
    /\ frame.raw[2].class # 3 /\ frame.raw[2].score > threshold
    /\ frame.raw[2].score < threshold + Milli
    /\ Len(result.detections) = 1

WithoutClass3(raw) == SelectSeq(raw, LAMBDA d : d.class # 3)

\* C4: a raw detection of class 3 is never in the detections and never counts
\* for max_detection_conf: the maximum is the one of the input without its
\* class-3 detections.
C4_ExcludedCategory ==
    Succeeded =>
        /\ \A i \in 1..Len(result.detections) : result.detections[i].category # 3
        /\ result.max_detection_conf =
              generate_detections_one_image(WithoutClass3(frame.raw), frame.id,
                                            threshold, NoFault)[1].max_detection_conf
        /\ Len(result.detections) <= Len(WithoutClass3(frame.raw))

\* A class-3 detection has the highest score of the image, above the threshold.
C4_Witness ==
    /\ Succeeded
    /\ Len(result.detections) = 1
    /\ \E i \in 1..Len(frame.raw) :
          /\ frame.raw[i].class = 3
          /\ frame.raw[i].score > threshold
          /\ frame.raw[i].score > result.max_detection_conf + Milli

\* C5: on success max_detection_conf is the maximum 'conf' of the returned
\* detections, 0.0 when there are none, and never negative.
C5_MaxConfidence ==
    Succeeded =>
        /\ result.max_detection_conf = SeqMax(Confs(result.detections))
        /\ result.max_detection_conf >= 0

\* Two detections, the first one the more confident.
C5_Witness ==
    /\ Succeeded
    /\ Len(result.detections) = 2
    /\ result.detections[1].conf > result.detections[2].conf
    /\ result.max_detection_conf = result.detections[1].conf

\* C6 as stated: every stored 'conf' exceeds the threshold.
C6_ConfExceedsThreshold ==
    Succeeded =>
        \A i \in 1..Len(result.detections) : result.detections[i].conf > threshold

\* C6 amended: every stored 'conf' is at least the threshold cut to 3 decimal
\* places and exceeds threshold - 0.001; it belongs to a raw score above the
\* threshold.
C6_ConfAtLeastTruncatedThreshold ==
    Succeeded =>
        /\ \A i \in 1..Len(result.detections) :
              /\ result.detections[i].conf >= (threshold \div Milli) * Milli
              /\ result.detections[i].conf > threshold - Milli
        /\ Len(result.detections) <= Len(Kept(frame.raw, threshold))

\* A detection is stored with 'conf' equal to the threshold.
C6_Witness ==
    /\ Succeeded
    /\ \E i \in 1..Len(result.detections) : result.detections[i].conf = threshold

-----------------------------------------------------------------------------
(* Properties of the coordinate conversion (SpecCoords) *)

Abs(x) == IF x < 0 THEN -x ELSE x

\* C8 as stated: each recovered coordinate is within 0.0001 of the original.
C8_RoundTripWithinTolerance ==
    (program = "coords" /\ pc = "returned") =>
        \A i \in 1..4 : Abs(back_coords[i] - tf_coords[i]) < TenThousandth

\* C8 amended: y1 and x1 come back within 0.0001, y2 and x2 within 0.0002,
\* and no recovered coordinate exceeds the original.
C8_RoundTripAmended ==
    (program = "coords" /\ pc = "returned") =>
        /\ \A i \in {1, 2} : tf_coords[i] - back_coords[i] \in 0..(TenThousandth - 1)
        /\ \A i \in {3, 4} : tf_coords[i] - back_coords[i] \in 0..(2 * TenThousandth - 1)

\* x2 comes back 0.0001 or more below the original.
C8_Witness ==
    /\ program = "coords"
    /\ pc = "returned"
    /\ tf_coords[4] - back_coords[4] >= TenThousandth

-----------------------------------------------------------------------------
(* Properties of the drivers (Spec) *)

HasClass(raw, c) == \E i \in 1..Len(raw) : raw[i].class = c

\* C1: a frame on which inference raises yields a result tagged with the
\* failure and the driver loop goes on: it never ends by an exception.
C1_FailureIsolation ==
    (printed # <<>> /\ "failure" \in DOMAIN printed[1]) => pc # "crashed"

\* C7: after a successful inference the flag is 1 exactly when a raw
\* detection of the frame has class 1, above the threshold or not; the
\* server beeps in a cycle exactly when that cycle's flag is 1.
C7_AnimalFlagAndAlert ==
    program = "server" =>
        /\ pc \in {"alert", "key"} => (flag = 1 <=> HasClass(frame.raw, 1))
        /\ pc = "key" => (alerted <=> flag = 1)
        /\ pc \in {"reply", "infer", "alert"} => ~alerted

\* The server beeped for a frame whose detections hold no class-1 entry.
C7_Witness ==
    /\ program = "server"
    /\ pc = "key"
    /\ alerted
    /\ printed[1].detections = <<>>
    /\ HasClass(frame.raw, 1)

FullCycle == <<"recv", "OK", "infer", "build", "dispatch">>

C10_ExitOnlyOnShutdownOrEndOfStream ==
    pc = "done" => \/ program = "server" /\ key = "q"
                   \/ program = "video_detect" /\ eos

\* C10 amended: the server loop ends on the quit key, the video loop on the
\* end of the stream or after 1000 frames; either ends by the uncaught
\* exception of a failed inference; a loop that awaits a frame and has not
\* reached one of these exits can take the next frame.
C10_ExitConditions ==
    /\ pc = "done" => \/ program = "server" /\ key = "q"
                      \/ program = "video_detect" /\ (eos \/ count = 1000)
    /\ pc = "crashed" => (printed # <<>> /\ "failure" \in DOMAIN printed[1])
    /\ (program = "video_detect" /\ eos) => pc = "done"
    /\ (program = "server" /\ pc = "recv") => ENABLED SrvRecv
    /\ (program = "video_detect" /\ pc = "read" /\ count # 1000) => ENABLED VidRead

\* The video loop stopped at its 1000th frame with the stream still open.
C10_Witness ==
    /\ program = "video_detect"
    /\ pc = "done"
    /\ count = 1000
    /\ ~eos

====
